---- MODULE Spec2Model ----
(***************************************************************************)
(* Sound-Equalizer: the streaming filter chain (AudioProcessor), the       *)
(* coefficient derivation (EqualizerBand) and the preset handling of       *)
(* SoundEqualizer.                                                         *)
(*                                                                         *)
(* Numbers: a sample, a coefficient and a delay-line tap are reals in the  *)
(* program.  Here they are fixed-point integers, v standing for v/Scale,   *)
(* and every product and quotient is rounded (towards minus infinity) as   *)
(* a floating-point operation rounds its result.                           *)
(***************************************************************************)
EXTENDS Integers, Sequences, FiniteSets, TLC

VARIABLES
    sample_rate,    \* AudioProcessor.sample_rate
    bands,          \* AudioProcessor.bands: sequence of EqualizerBand
    filter_states,  \* AudioProcessor.filter_states: None or a two-tap vector
    buffer_size,    \* SoundEqualizer.buffer_size
    config,         \* SoundEqualizer.config
    last,           \* observation: the last call, its arguments, result and pre-state
    nsteps,         \* number of calls made so far (bounds the length of a run)
    cont,           \* the streaming-continuity experiment (SpecStream only)
    audio,          \* SoundEqualizer.audio: None or the PyAudio instance
    stream,         \* SoundEqualizer.stream: None or the open stream
    running,        \* SoundEqualizer.running
    start_pc,       \* where the thread that called start() is
    enabled,        \* EqualizerGUI.enabled
    sliders,        \* EqualizerGUI.band_controls: slider.value() of each, in tenths of a dB
    gui_config,     \* EqualizerGUI.config
    audio_thread,   \* the audio thread inside process_block: position and locals
    control         \* the control thread inside add_band or clear_bands

lifecycle == <<audio, stream, running, start_pc>>
gui == <<enabled, sliders, gui_config>>
threads == <<audio_thread, control>>

vars == <<sample_rate, buffer_size, bands, filter_states, config, last, nsteps, cont,
          audio, stream, running, start_pc, enabled, sliders, gui_config,
          audio_thread, control>>

----------------------------------------------------------------------------
\* Bounds of the model

\* fixed-point resolution: the integer v stands for the real v / Scale
Scale == 64
\* longest block handed to process_block
MaxLen == 2
\* most bands a chain holds through add_band
MaxBands == 2
\* most calls in one run
MaxSteps == 3
\* longest signal of the streaming-continuity experiment
MaxSignal == 3

----------------------------------------------------------------------------
\* Fixed-point arithmetic

Abs(v) == IF v < 0 THEN -v ELSE v

\* x * y / Scale, rounded down: the larger factor is split into its multiple of
\* Scale and the rest, which keeps the intermediate products small
Mul(x, y) ==
    IF Abs(x) >= Abs(y)
    THEN (x \div Scale) * y + ((x % Scale) * y) \div Scale
    ELSE (y \div Scale) * x + ((y % Scale) * x) \div Scale
Div(x, y) == (x * Scale) \div y

\* numpy astype(np.float32): rounds to the coarser float32 grid
AsFloat32(x) == 2 * (x \div 2)

AsTypeFloat32(data) == [n \in 1..Len(data) |-> AsFloat32(data[n])]

\* the element of a one-element set; with { e(v) : v \in {d} } it names d once,
\* as an assignment to a local variable does
Only(S) == CHOOSE v \in S : TRUE

\* Python None in filter_states
None == <<>>

----------------------------------------------------------------------------
\* EqualizerBand

DefaultQ == 1

\* an optional argument: <<>> when the call omits it, <<v>> when it passes v
Omitted == <<>>
Given(v) == <<v>>

\* q_factor=1.0 is the default of EqualizerBand.__init__ and of add_band
EqualizerBand(frequency, gain_db, q_factor) ==
    [frequency |-> frequency, gain_db |-> gain_db,
     q_factor |-> IF q_factor = Omitted THEN DefaultQ ELSE q_factor[1]]

\* 10 ** (gain_db / 20.0), in thousandths
GainLinearMilli(gain_db) ==
    CASE gain_db = -6 -> 501
      [] gain_db = -3 -> 708
      [] gain_db = -1 -> 891
      [] gain_db = 0  -> 1000
      [] gain_db = 3  -> 1413
      [] gain_db = 6  -> 1995

\* np.sin(2 * np.pi * frequency / sample_rate), in thousandths
SinMilli(frequency, fs) ==
    CASE 2 * frequency = fs -> 0
      [] frequency = 10 -> 1
      [] frequency = 470   /\ fs = 44100 -> 67
      [] frequency = 490   /\ fs = 48000 -> 64
      [] frequency = 1000  /\ fs = 44100 -> 142
      [] frequency = 10000 /\ fs = 44100 -> 989
      [] frequency = 1000  /\ fs = 48000 -> 131
      [] frequency = 10000 /\ fs = 48000 -> 966

\* np.cos(2 * np.pi * frequency / sample_rate), in thousandths
CosMilli(frequency, fs) ==
    CASE 2 * frequency = fs -> -1000
      [] frequency = 10 -> 1000
      [] frequency = 470   /\ fs = 44100 -> 998
      [] frequency = 490   /\ fs = 48000 -> 998
      [] frequency = 1000  /\ fs = 44100 -> 990
      [] frequency = 10000 /\ fs = 44100 -> 146
      [] frequency = 1000  /\ fs = 48000 -> 991
      [] frequency = 10000 /\ fs = 48000 -> 259

FromMilli(m) == (m * Scale) \div 1000

\* get_filter_coefficients without the division of a by a0
get_filter_coefficients_unnormalised(band, fs) ==
    LET gain_linear == FromMilli(GainLinearMilli(band.gain_db))
        sin_w0 == FromMilli(SinMilli(band.frequency, fs))
        alpha  == sin_w0 \div (2 * band.q_factor)
        cos_w0 == FromMilli(CosMilli(band.frequency, fs))
        b0 == Scale + Mul(alpha, gain_linear)
        b1 == -2 * cos_w0
        b2 == Scale - Mul(alpha, gain_linear)
        a0 == Scale + Div(alpha, gain_linear)
        a1 == -2 * cos_w0
        a2 == Scale - Div(alpha, gain_linear)
    IN  [b |-> <<Div(b0, a0), Div(b1, a0), Div(b2, a0)>>,
         a |-> <<a0, a1, a2>>]

get_filter_coefficients(band, fs) ==
    LET gain_linear == FromMilli(GainLinearMilli(band.gain_db))
        sin_w0 == FromMilli(SinMilli(band.frequency, fs))
        alpha  == sin_w0 \div (2 * band.q_factor)
        cos_w0 == FromMilli(CosMilli(band.frequency, fs))
        b0 == Scale + Mul(alpha, gain_linear)
        b1 == -2 * cos_w0
        b2 == Scale - Mul(alpha, gain_linear)
        a0 == Scale + Div(alpha, gain_linear)
        a1 == -2 * cos_w0
        a2 == Scale - Div(alpha, gain_linear)
    IN  [b |-> <<Div(b0, a0), Div(b1, a0), Div(b2, a0)>>,
         a |-> <<Scale, Div(a1, a0), Div(a2, a0)>>]

----------------------------------------------------------------------------
\* scipy.signal as process_block uses it

\* signal.lfilter_zi(b, a): the delay line of the step response's steady state
lfilter_zi(b, a) ==
    LET B1 == b[2] - Mul(a[2], b[1])
        B2 == b[3] - Mul(a[3], b[1])
        zi0 == Div(B1 + B2, Scale + a[2] + a[3])
        asum == Scale + a[2]
        csum == B1
    IN  <<zi0, Mul(asum, zi0) - csum>>

\* zi * processed[0]
ScaleZi(zi, x0) == <<Mul(zi[1], x0), Mul(zi[2], x0)>>

\* signal.lfilter(b, a, x, zi=zi): direct form II transposed, sample by sample;
\* returns the output and the trailing delay line.  An empty x leaves zi as it is.
RECURSIVE lfilter_from(_, _, _, _, _, _)
lfilter_from(b, a, x, n, z, y) ==
    IF n > Len(x) THEN [y |-> y, zf |-> z]
    ELSE Only({ Only({ lfilter_from(b, a, x, n + 1, zn, yy) :
                       zn \in {<< z[2] + Mul(b[2], x[n]) - Mul(a[2], yn),
                                  Mul(b[3], x[n]) - Mul(a[3], yn) >>},
                       yy \in {Append(y, yn)} }) :
                yn \in {z[1] + Mul(b[1], x[n])} })

lfilter(b, a, x, zi) == lfilter_from(b, a, x, 1, zi, <<>>)

----------------------------------------------------------------------------
\* AudioProcessor: the operations as functions of the chain

Chain(bs, sts) == [bands |-> bs, filter_states |-> sts]

EmptyChain == Chain(<<>>, <<>>)

\* add_band that rebuilds the state list instead of appending to it
add_band_rebuilds_states(ch, frequency, gain_db, q_factor) ==
    Chain(Append(ch.bands, EqualizerBand(frequency, gain_db, q_factor)),
          [i \in 1..(Len(ch.bands) + 1) |-> None])

add_band(ch, frequency, gain_db, q_factor) ==
    Chain(Append(ch.bands, EqualizerBand(frequency, gain_db, q_factor)),
          Append(ch.filter_states, None))

\* clear_bands without its second line
clear_bands_keeps_states(ch) == Chain(<<>>, ch.filter_states)

\* clear_bands that does what reset_states does
clear_bands_as_reset(ch) == Chain(ch.bands, [i \in 1..Len(ch.bands) |-> None])

clear_bands(ch) == Chain(<<>>, <<>>)

\* reset_states that empties the chain
reset_states_drops_bands(ch) == Chain(<<>>, <<>>)

\* reset_states that leaves the states as they are
reset_states_keeps_states(ch) == ch

reset_states(ch) == Chain(ch.bands, [i \in 1..Len(ch.bands) |-> None])

\* the band body without the assignment to filter_states[i] in the None branch
filter_band_forgets_state(band, state, processed, fs) ==
    Only({ IF state = None
           THEN [y |-> lfilter(c.b, c.a, processed,
                               ScaleZi(lfilter_zi(c.b, c.a), processed[1])).y,
                 zf |-> None]
           ELSE lfilter(c.b, c.a, processed, state) :
           c \in {get_filter_coefficients(band, fs)} })

\* the band body that starts every block from the first-sample steady state
filter_band_restarts(band, state, processed, fs) ==
    Only({ lfilter(c.b, c.a, processed,
                   ScaleZi(lfilter_zi(c.b, c.a), processed[1])) :
           c \in {get_filter_coefficients(band, fs)} })

\* the body of the band loop of process_block for one band: the coefficients
\* are recomputed, the filter starts from the band's state or, when that is
\* None, from the steady state of the block's first sample
filter_band(band, state, processed, fs) ==
    Only({ IF state = None
           THEN lfilter(c.b, c.a, processed,
                        ScaleZi(lfilter_zi(c.b, c.a), processed[1]))
           ELSE lfilter(c.b, c.a, processed, state) :
           c \in {get_filter_coefficients(band, fs)} })

\* the band loop of process_block, from band i on; "raised" is the IndexError
\* of processed[0] on an empty block
RECURSIVE band_loop(_, _, _, _, _)
band_loop(i, bs, sts, processed, fs) ==
    IF i > Len(bs)
    THEN [raised |-> FALSE, out |-> processed, filter_states |-> sts]
    ELSE IF sts[i] = None /\ Len(processed) = 0
    THEN [raised |-> TRUE, out |-> <<>>, filter_states |-> sts]
    ELSE Only({ Only({ band_loop(i + 1, bs, st, y, fs) :
                       st \in {[sts EXCEPT ![i] = r.zf]}, y \in {r.y} }) :
                r \in {filter_band(bs[i], sts[i], processed, fs)} })

\* an assignment to gain_db that also forgets the band's filter state
set_gain_db_resets_state(ch, band_index, gain_db) ==
    Chain([ch.bands EXCEPT ![band_index].gain_db = gain_db],
          [ch.filter_states EXCEPT ![band_index] = None])

\* bands[band_index].gain_db = gain_db, with band_index from 1
set_gain_db(ch, band_index, gain_db) ==
    Chain([ch.bands EXCEPT ![band_index].gain_db = gain_db], ch.filter_states)

\* process_block that converts to float32 before it looks at the bands
process_block_converts_first(ch, audio_data, fs) ==
    IF Len(ch.bands) = 0
    THEN [raised |-> FALSE, out |-> AsTypeFloat32(audio_data), is_input |-> FALSE,
          filter_states |-> ch.filter_states]
    ELSE Only({ [raised |-> r.raised, out |-> r.out, is_input |-> FALSE,
                 filter_states |-> r.filter_states] :
                r \in {band_loop(1, ch.bands, ch.filter_states,
                                 AsTypeFloat32(audio_data), fs)} })

\* process_block(audio_data): is_input says that the returned block is the
\* argument object itself
process_block(ch, audio_data, fs) ==
    IF Len(ch.bands) = 0
    THEN [raised |-> FALSE, out |-> audio_data, is_input |-> TRUE,
          filter_states |-> ch.filter_states]
    ELSE Only({ [raised |-> r.raised, out |-> r.out, is_input |-> FALSE,
                 filter_states |-> r.filter_states] :
                r \in {band_loop(1, ch.bands, ch.filter_states,
                                 AsTypeFloat32(audio_data), fs)} })

----------------------------------------------------------------------------
\* normalize_audio and apply_fade

\* the quotient target_linear / peak keeps Fine times the precision of a sample
Fine == 4194304

\* np.max(values) of a non-empty array
Max(values) ==
    CHOOSE m \in {values[i] : i \in DOMAIN values} :
        \A i \in DOMAIN values : values[i] <= m

\* n / d rounded to the nearest integer, for d > 0
RoundDiv(n, d) == (2 * n + d) \div (2 * d)

\* audio_data * scale
Scaled(audio_data, scale) ==
    [i \in 1..Len(audio_data) |-> RoundDiv(audio_data[i] * scale, Fine)]

\* normalize_audio that multiplies by target_linear alone
normalize_audio_without_peak(audio_data, target_level) ==
    IF audio_data = <<>>
    THEN [raised |-> TRUE, out |-> <<>>, is_input |-> FALSE, scale |-> 0]
    ELSE LET peak == Max([i \in 1..Len(audio_data) |-> Abs(audio_data[i])])
             target_linear == FromMilli(GainLinearMilli(target_level))
             scale == (target_linear * Fine) \div Scale
         IN  IF peak = 0
             THEN [raised |-> FALSE, out |-> audio_data, is_input |-> TRUE, scale |-> 0]
             ELSE [raised |-> FALSE, out |-> Scaled(audio_data, scale),
                   is_input |-> FALSE, scale |-> scale]

\* normalize_audio(audio_data, target_level).  np.max of an empty array raises
\* ValueError; an all-zero block is returned as it is (the same array).
normalize_audio(audio_data, target_level) ==
    IF audio_data = <<>>
    THEN [raised |-> TRUE, out |-> <<>>, is_input |-> FALSE, scale |-> 0]
    ELSE LET peak == Max([i \in 1..Len(audio_data) |-> Abs(audio_data[i])])
             target_linear == FromMilli(GainLinearMilli(target_level))
             scale == (target_linear * Fine) \div peak
         IN  IF peak = 0
             THEN [raised |-> FALSE, out |-> audio_data, is_input |-> TRUE, scale |-> 0]
             ELSE [raised |-> FALSE, out |-> Scaled(audio_data, scale),
                   is_input |-> FALSE, scale |-> scale]

\* min(fade_samples, len(result))
Min(x, y) == IF x < y THEN x ELSE y

\* np.linspace(start, stop, num) for num >= 0: no point, the start alone, or
\* num points start + i * step of which the last is stop
linspace(start, stop, num) ==
    [k \in 1..num |->
        IF num = 1 THEN start
        ELSE IF k = num THEN stop
        ELSE start + ((k - 1) * (stop - start)) \div (num - 1)]

\* result[lo..hi] *= factors, elementwise; the slice and the factors have the
\* same length
TimesSlice(result, lo, factors) ==
    [i \in 1..Len(result) |->
        IF i >= lo /\ i < lo + Len(factors)
        THEN Mul(result[i], factors[i - lo + 1])
        ELSE result[i]]

\* apply_fade(audio_data, fade_samples) for fade_samples >= 0.  The work is done
\* on a copy, so the argument stays as it was.  result[-len(fade_out):] is the
\* whole array when fade_out is empty, and multiplying a non-empty array in
\* place by an empty one raises ValueError.
apply_fade(audio_data, fade_samples) ==
    LET n        == Len(audio_data)
        fade_in  == linspace(0, Scale, Min(fade_samples, n))
        faded_in == TimesSlice(audio_data, 1, fade_in)
        fade_out == linspace(Scale, 0, Min(fade_samples, n))
    IN  IF Len(fade_out) = 0 /\ n > 0
        THEN [raised |-> TRUE, out |-> <<>>, arg |-> audio_data]
        ELSE [raised |-> FALSE,
              out |-> TimesSlice(faded_in, n - Len(fade_out) + 1, fade_out),
              arg |-> audio_data]

----------------------------------------------------------------------------
\* SoundEqualizer: configuration and presets

\* dict.get(key, default)
Get(d, key, default) == IF key \in DOMAIN d THEN d[key] ELSE default

\* _default_config()
DefaultConfig == [sample_rate |-> 44100, buffer_size |-> 1024, bands |-> <<>>]

\* a configuration file with two bands, the second without q_factor, and
\* presets with the right and with a wrong number of gains
TwoBandConfig ==
    [sample_rate |-> 44100, buffer_size |-> 1024,
     bands |-> << [frequency |-> 1000, gain_db |-> 0, q_factor |-> 2],
                  [frequency |-> 10000, gain_db |-> 0] >>,
     presets |-> [boost |-> [description |-> "Boost", gains |-> <<6, 0>>],
                  cut   |-> [description |-> "Cut", gains |-> <<-3, -6>>],
                  short |-> [description |-> "One gain", gains |-> <<6>>],
                  long  |-> [description |-> "Three gains", gains |-> <<6, 0, 3>>]]]

\* a configuration file with one band
OneBandConfig ==
    [sample_rate |-> 44100, buffer_size |-> 1024,
     bands |-> << [frequency |-> 10000, gain_db |-> 6, q_factor |-> 1] >>,
     presets |-> [boost |-> [description |-> "Boost", gains |-> <<3>>],
                  long  |-> [description |-> "Two gains", gains |-> <<6, 0>>]]]

\* a configuration file that gives the sample rate only
MinimalConfig == [sample_rate |-> 48000]

\* a configuration file that gives no sample rate
NoRateConfig == [buffer_size |-> 512, bands |-> <<>>]

ConfigNames == {"default", "two", "one", "minimal", "norate"}

ConfigOf(name) ==
    CASE name = "default" -> DefaultConfig
      [] name = "two" -> TwoBandConfig
      [] name = "one" -> OneBandConfig
      [] name = "minimal" -> MinimalConfig
      [] name = "norate" -> NoRateConfig

\* the files a SoundEqualizer is constructed with: one that does not exist, one
\* that is not JSON, and one per configuration above
ConfigFiles ==
    {[kind |-> "missing", name |-> "default"], [kind |-> "invalid", name |-> "default"]}
        \cup {[kind |-> "valid", name |-> n] : n \in ConfigNames \ {"default"}}

\* _load_config without the try/except around json.load
load_config_without_except(config_file) ==
    CASE config_file.kind = "missing" -> [raised |-> FALSE, config |-> DefaultConfig]
      [] config_file.kind = "invalid" -> [raised |-> TRUE, config |-> <<>>]
      [] config_file.kind = "valid" ->
            [raised |-> FALSE, config |-> ConfigOf(config_file.name)]

\* _load_config(config_file): the defaults when the file does not exist or
\* json.load raises
load_config(config_file) ==
    CASE config_file.kind = "missing" -> [raised |-> FALSE, config |-> DefaultConfig]
      [] config_file.kind = "invalid" -> [raised |-> FALSE, config |-> DefaultConfig]
      [] config_file.kind = "valid" ->
            [raised |-> FALSE, config |-> ConfigOf(config_file.name)]

PresetNames == {"boost", "cut", "short", "long", "nonexistent"}

\* band.get('q_factor', 1.0) of a configured band, as add_band's argument
ConfiguredQ(band) ==
    IF "q_factor" \in DOMAIN band THEN Given(band.q_factor) ELSE Omitted

\* the loop of _load_bands_from_config, from configured band i on: one add_band
\* per band, with the configured gain_db
RECURSIVE load_bands(_, _, _)
load_bands(ch, cbands, i) ==
    IF i > Len(cbands) THEN ch
    ELSE load_bands(add_band(ch, cbands[i].frequency, cbands[i].gain_db,
                             ConfiguredQ(cbands[i])),
                    cbands, i + 1)

\* _load_bands_from_config()
load_bands_from_config(cfg, ch) == load_bands(ch, Get(cfg, "bands", <<>>), 1)

\* the loop of apply_preset over zip(bands, gains), from pair i on: one add_band
\* per pair, with the preset's gain
RECURSIVE reload_bands(_, _, _, _)
reload_bands(ch, cbands, gains, i) ==
    IF i > Len(cbands) \/ i > Len(gains) THEN ch
    ELSE reload_bands(add_band(ch, cbands[i].frequency, gains[i],
                               ConfiguredQ(cbands[i])),
                      cbands, gains, i + 1)

\* apply_preset that clears the chain before it compares the lengths
apply_preset_clears_first(cfg, ch, preset_name) ==
    LET presets == Get(cfg, "presets", <<>>) IN
    IF preset_name \notin DOMAIN presets
    THEN [ret |-> FALSE, chain |-> ch]
    ELSE LET gains  == presets[preset_name].gains
             cbands == Get(cfg, "bands", <<>>)
         IN  IF Len(gains) # Len(cbands)
             THEN [ret |-> FALSE, chain |-> clear_bands(ch)]
             ELSE [ret |-> TRUE,
                   chain |-> reload_bands(clear_bands(ch), cbands, gains, 1)]

\* apply_preset without its clear_bands() call
apply_preset_keeps_old_bands(cfg, ch, preset_name) ==
    LET presets == Get(cfg, "presets", <<>>) IN
    IF preset_name \notin DOMAIN presets
    THEN [ret |-> FALSE, chain |-> ch]
    ELSE LET gains  == presets[preset_name].gains
             cbands == Get(cfg, "bands", <<>>)
         IN  IF Len(gains) # Len(cbands)
             THEN [ret |-> FALSE, chain |-> ch]
             ELSE [ret |-> TRUE, chain |-> reload_bands(ch, cbands, gains, 1)]

\* apply_preset(preset_name): the value returned and the chain it leaves
apply_preset(cfg, ch, preset_name) ==
    LET presets == Get(cfg, "presets", <<>>) IN
    IF preset_name \notin DOMAIN presets
    THEN [ret |-> FALSE, chain |-> ch]
    ELSE LET gains  == presets[preset_name].gains
             cbands == Get(cfg, "bands", <<>>)
         IN  IF Len(gains) # Len(cbands)
             THEN [ret |-> FALSE, chain |-> ch]
             ELSE [ret |-> TRUE,
                   chain |-> reload_bands(clear_bands(ch), cbands, gains, 1)]

----------------------------------------------------------------------------
\* Inputs

SampleRates == {44100, 48000}
\* gains a slider is moved to
SliderGains == {-6, 3}
Int16Samples == {-32768, 32767}
\* the blocks the stream delivers: of no frame, silent, and of extreme samples
Int16Blocks == {<<>>, <<0>>} \cup UNION {[1..n -> Int16Samples] : n \in 1..MaxLen}
Frequencies == {1000, 10000}
Gains == {6}
QArgs == {Omitted, Given(2)}

\* the values a sample of an input block takes: -(1 + 1/Scale) and 1
SampleValues == {-(Scale + 1), Scale}

BlocksOfLen(n) == [1..n -> SampleValues]
Blocks == UNION {BlocksOfLen(n) : n \in 0..MaxLen}

----------------------------------------------------------------------------
\* The frequency response of the chain

\* a complex number; fin is FALSE for nan
Complex(re, im) == [re |-> re, im |-> im, fin |-> TRUE]
ComplexNaN == [re |-> 0, im |-> 0, fin |-> FALSE]

ComplexAdd(x, y) ==
    IF x.fin /\ y.fin THEN Complex(x.re + y.re, x.im + y.im) ELSE ComplexNaN

ComplexMul(x, y) ==
    IF x.fin /\ y.fin
    THEN Complex(Mul(x.re, y.re) - Mul(x.im, y.im), Mul(x.re, y.im) + Mul(x.im, y.re))
    ELSE ComplexNaN

\* n / d; 0 / 0 is nan
ComplexDiv(n, d) ==
    LET m == d.re * d.re + d.im * d.im
    IN  IF n.fin /\ d.fin /\ m # 0
        THEN Complex(((n.re * d.re + n.im * d.im) * Scale) \div m,
                     ((n.im * d.re - n.re * d.im) * Scale) \div m)
        ELSE ComplexNaN

\* c[0] + c[1] * zm1 + c[2] * zm1**2
polyval(c, zm1) ==
    ComplexAdd(ComplexAdd(Complex(c[1], 0), ComplexMul(Complex(c[2], 0), zm1)),
               ComplexMul(Complex(c[3], 0), ComplexMul(zm1, zm1)))

\* signal.freqz(b, a, worN=[frequency], fs=fs): the response at one frequency,
\* B(zm1) / A(zm1) with zm1 = exp(-j * 2 * pi * frequency / fs).  The values are
\* on the grid of 1 / Scale, which is coarse where B and A are both small.
freqz(b, a, frequency, fs) ==
    LET zm1 == Complex(FromMilli(CosMilli(frequency, fs)),
                       -FromMilli(SinMilli(frequency, fs)))
    IN  ComplexDiv(polyval(b, zm1), polyval(a, zm1))

\* total_response at one frequency after the bands from k on: total *= h
RECURSIVE total_response_from(_, _, _, _, _)
total_response_from(bs, k, frequency, fs, total) ==
    IF k > Len(bs) THEN total
    ELSE Only({ total_response_from(bs, k + 1, frequency, fs, t) :
                t \in {ComplexMul(total,
                                  Only({ freqz(c.b, c.a, frequency, fs) :
                                         c \in {get_filter_coefficients(bs[k], fs)} }))} })

\* a real result: a number, or -inf or nan
Finite(v) == [fin |-> TRUE, v |-> v]
MinusInfinity == [fin |-> FALSE, v |-> -1]
NaN == [fin |-> FALSE, v |-> 0]

\* np.abs(h) of a finite h
ComplexAbs(h) ==
    LET n == h.re * h.re + h.im * h.im
    IN  CHOOSE r \in 0..(Abs(h.re) + Abs(h.im)) : r * r <= n /\ n < (r + 1) * (r + 1)

\* log2(v) for v > 0: the exponent, and the mantissa less 1 for the fraction
RECURSIVE Log2(_)
Log2(v) ==
    IF v >= 2 * Scale THEN Scale + Log2(v \div 2)
    ELSE IF v < Scale THEN Log2(2 * v) - Scale
    ELSE v - Scale

\* 20 * np.log10(np.abs(h)) = 20 * log10(2) * log2(|h|); log10(0) is -inf
MagnitudeDb(h) ==
    IF ~h.fin THEN NaN
    ELSE IF ComplexAbs(h) = 0 THEN MinusInfinity
    ELSE Finite((6021 * Log2(ComplexAbs(h))) \div 1000)

\* arctan(r / 1000) in thousandths of a radian, for 0 <= r <= 1000
ArctanMilli(r) == (r * (785 + (273 * (1000 - r)) \div 1000)) \div 1000

\* np.angle(h) = arctan2(h.imag, h.real), in (-pi, pi]
Angle(h) ==
    IF ~h.fin THEN NaN
    ELSE LET ax == Abs(h.re)
             ay == Abs(h.im)
             first == IF ax = 0 /\ ay = 0 THEN 0
                      ELSE IF ay <= ax THEN ArctanMilli((ay * 1000) \div ax)
                      ELSE 1571 - ArctanMilli((ax * 1000) \div ay)
             upper == IF h.re < 0 THEN 3142 - first ELSE first
         IN  Finite(FromMilli(IF h.im < 0 THEN -upper ELSE upper))

\* np.logspace(1, np.log10(fs / 2), 1000): its first, its middle and its last point
DefaultGrid(fs) == <<10, IF fs = 44100 THEN 470 ELSE 490, fs \div 2>>

\* get_frequency_response that starts from a response of zeros
get_frequency_response_from_zeros(ch, frequencies, fs) ==
    LET freqs == IF frequencies = Omitted THEN DefaultGrid(fs) ELSE frequencies[1]
        total_response ==
            [i \in 1..Len(freqs) |->
                total_response_from(ch.bands, 1, freqs[i], fs, Complex(0, 0))]
    IN  [frequencies |-> freqs,
         magnitude_db |-> [i \in 1..Len(freqs) |-> MagnitudeDb(total_response[i])],
         phase |-> [i \in 1..Len(freqs) |-> Angle(total_response[i])],
         chain |-> ch]

\* get_frequency_response that leaves every filter state as reset_states does
get_frequency_response_resets(ch, frequencies, fs) ==
    LET freqs == IF frequencies = Omitted THEN DefaultGrid(fs) ELSE frequencies[1]
        total_response ==
            [i \in 1..Len(freqs) |->
                total_response_from(ch.bands, 1, freqs[i], fs, Complex(Scale, 0))]
    IN  [frequencies |-> freqs,
         magnitude_db |-> [i \in 1..Len(freqs) |-> MagnitudeDb(total_response[i])],
         phase |-> [i \in 1..Len(freqs) |-> Angle(total_response[i])],
         chain |-> reset_states(ch)]

\* get_frequency_response(frequencies): the grid queried, the magnitude in dB and
\* the phase at each of its points, and the processor, which it leaves alone
get_frequency_response(ch, frequencies, fs) ==
    LET freqs == IF frequencies = Omitted THEN DefaultGrid(fs) ELSE frequencies[1]
        total_response ==
            [i \in 1..Len(freqs) |->
                total_response_from(ch.bands, 1, freqs[i], fs, Complex(Scale, 0))]
    IN  [frequencies |-> freqs,
         magnitude_db |-> [i \in 1..Len(freqs) |-> MagnitudeDb(total_response[i])],
         phase |-> [i \in 1..Len(freqs) |-> Angle(total_response[i])],
         chain |-> ch]

\* the grids callers pass: none, or an array of their own
Grids == {Omitted, Given(<<10000, 1000>>), Given(<<1000>>)}

----------------------------------------------------------------------------
\* The equalizer and its processor as a state machine

TheChain == Chain(bands, filter_states)

NoCont == [pc |-> "off"]

\* no PyAudio instance, no stream, nobody in start()
NoDevice == audio = None /\ stream = None /\ running = FALSE /\ start_pc = "idle"

\* no window
NoGui == enabled = FALSE /\ sliders = <<>> /\ gui_config = <<>>

\* no thread inside a method of the processor
Idle == [pc |-> "idle"]
NoThreads == audio_thread = Idle /\ control = Idle

\* what a call leaves in "last" about the call before it
Before == [op |-> last.op, states0 |-> last.states0, bands0 |-> last.bands0]

\* np.clip(v, lo, hi)
Clip(v, lo, hi) == IF v < lo THEN lo ELSE IF v > hi THEN hi ELSE v

\* astype(np.int16) of a float within the range of int16: the fraction is dropped
AsInt16(v) == IF v < 0 THEN -((-v) \div Scale) ELSE v \div Scale

\* np.frombuffer(in_data, dtype=np.int16).astype(np.float32)
FromInt16(in_data) == [i \in 1..Len(in_data) |-> in_data[i] * Scale]

\* audio_callback(in_data, ...) as the stream calls it: the block goes through
\* process_block and normalize_audio(target_level=-1.0), is clipped and
\* converted back; an exception of either call leaves through the callback
audio_callback(ch, in_data, fs) ==
    Only({ IF p.raised
           THEN [raised |-> TRUE, out |-> <<>>, flag |-> "none",
                 filter_states |-> p.filter_states]
           ELSE Only({ IF n.raised
                       THEN [raised |-> TRUE, out |-> <<>>, flag |-> "none",
                             filter_states |-> p.filter_states]
                       ELSE [raised |-> FALSE,
                             out |-> [i \in 1..Len(n.out) |->
                                        AsInt16(Clip(n.out[i], -32768 * Scale,
                                                     32767 * Scale))],
                             flag |-> "paContinue",
                             filter_states |-> p.filter_states] :
                       n \in {normalize_audio(p.out, -1)} }) :
           p \in {process_block(ch, FromInt16(in_data), fs)} })

\* pyaudio.PyAudio()
PyAudio == <<"PyAudio">>

\* the stream audio.open(...) returns, and the same stream once started or stopped
Stream(active) == <<active>>
is_active(s) == s[1]

\* cleanup that terminates PyAudio without stopping the stream
cleanup_without_stop(d) == [d EXCEPT !.audio = None]

\* stop(): an open stream is stopped if active, closed and forgotten
stop(d) == [d EXCEPT !.stream = None, !.running = FALSE]

\* cleanup(): stop(), then the PyAudio instance is terminated and forgotten
cleanup(d) == [stop(d) EXCEPT !.audio = None]

\* what happens to a call of start(): the import of pyaudio fails, PyAudio()
\* raises, audio.open raises, stream.start_stream raises, or the stream runs
StartOutcomes == {"import_fails", "pyaudio_fails", "open_fails", "start_stream_fails", "ok"}

\* start() whose finally clause is missing
start_enter_without_finally(d, outcome) ==
    LET a == [d EXCEPT !.audio = PyAudio]
        back(dev, opened, stopped, raised) ==
            [device |-> dev, pc |-> "idle", opened |-> opened, stop_ran |-> stopped,
             raised |-> raised]
    IN  IF outcome = "import_fails" \/ d.stream # None THEN back(d, FALSE, FALSE, FALSE)
        ELSE IF outcome = "pyaudio_fails" /\ d.audio = None
        THEN back(d, FALSE, FALSE, TRUE)
        ELSE IF outcome = "open_fails" THEN back(a, FALSE, FALSE, FALSE)
        ELSE IF outcome = "start_stream_fails"
        THEN back([a EXCEPT !.stream = Stream(FALSE)], TRUE, FALSE, FALSE)
        ELSE [device |-> [a EXCEPT !.stream = Stream(TRUE), !.running = TRUE],
              pc |-> "looping", opened |-> TRUE, stop_ran |-> FALSE, raised |-> FALSE]

\* start() up to its loop: it returns at once when pyaudio cannot be imported
\* or a stream is there; PyAudio() is called when audio is None and its
\* exception leaves start(); an exception of open or start_stream is caught and
\* the finally clause calls stop(); otherwise the stream runs and start() loops
start_enter(d, outcome) ==
    LET a == [d EXCEPT !.audio = PyAudio]
        back(dev, opened, stopped, raised) ==
            [device |-> dev, pc |-> "idle", opened |-> opened, stop_ran |-> stopped,
             raised |-> raised]
    IN  IF outcome = "import_fails" \/ d.stream # None THEN back(d, FALSE, FALSE, FALSE)
        ELSE IF outcome = "pyaudio_fails" /\ d.audio = None
        THEN back(d, FALSE, FALSE, TRUE)
        ELSE IF outcome = "open_fails" THEN back(stop(a), FALSE, TRUE, FALSE)
        ELSE IF outcome = "start_stream_fails"
        THEN back(stop([a EXCEPT !.stream = Stream(FALSE)]), TRUE, TRUE, FALSE)
        ELSE [device |-> [a EXCEPT !.stream = Stream(TRUE), !.running = TRUE],
              pc |-> "looping", opened |-> TRUE, stop_ran |-> FALSE, raised |-> FALSE]

\* how the loop of start() ends: the stream is no longer active, Ctrl+C, or
\* self.stream is None and is_active cannot be called
LoopExits == {"inactive", "interrupt", "error"}

\* the end of start(): the loop is left and the finally clause calls stop()
start_exit(d) ==
    [device |-> stop(d), pc |-> "idle", opened |-> TRUE, stop_ran |-> TRUE,
     raised |-> FALSE]

\* SoundEqualizer.__init__(config_file): the configuration is loaded, the
\* processor is built with its sample rate and the configured bands are added
SoundEqualizer(config_file) ==
    LET loaded == load_config(config_file)
        cfg    == loaded.config
    IN  [raised |-> loaded.raised,
         config |-> cfg,
         sample_rate |-> Get(cfg, "sample_rate", 44100),
         buffer_size |-> Get(cfg, "buffer_size", 1024),
         processor |-> load_bands_from_config(cfg, EmptyChain),
         audio |-> None, stream |-> None, running |-> FALSE]

\* the state after construction
Init ==
    \E config_file \in ConfigFiles :
        \E eq \in {SoundEqualizer(config_file)} :
            /\ config = eq.config
            /\ sample_rate = eq.sample_rate
            /\ buffer_size = eq.buffer_size
            /\ bands = eq.processor.bands
            /\ filter_states = eq.processor.filter_states
            /\ last = [op |-> "init", config_file |-> config_file,
                       raised |-> eq.raised, bands0 |-> <<>>, states0 |-> <<>>]
            /\ nsteps = 0
            /\ cont = NoCont
            /\ audio = eq.audio
            /\ stream = eq.stream
            /\ running = eq.running
            /\ start_pc = "idle"
            /\ NoGui
            /\ NoThreads

\* one more call of the run
Step == nsteps < MaxSteps /\ nsteps' = nsteps + 1

AddBand(frequency, gain_db, q_factor) ==
    /\ Step
    /\ Len(bands) < MaxBands
    /\ LET ch == add_band(TheChain, frequency, gain_db, q_factor)
       IN  /\ bands' = ch.bands
           /\ filter_states' = ch.filter_states
    /\ last' = [op |-> "add_band", frequency |-> frequency, gain_db |-> gain_db,
                q_factor |-> q_factor, bands0 |-> bands, states0 |-> filter_states]
    /\ UNCHANGED <<lifecycle, gui, threads, sample_rate, buffer_size, config, cont>>

ClearBands ==
    /\ Step
    /\ LET ch == clear_bands(TheChain)
       IN  /\ bands' = ch.bands
           /\ filter_states' = ch.filter_states
    /\ last' = [op |-> "clear_bands", bands0 |-> bands, states0 |-> filter_states]
    /\ UNCHANGED <<lifecycle, gui, threads, sample_rate, buffer_size, config, cont>>

ResetStates ==
    /\ Step
    /\ LET ch == reset_states(TheChain)
       IN  /\ bands' = ch.bands
           /\ filter_states' = ch.filter_states
    /\ last' = [op |-> "reset_states", bands0 |-> bands, states0 |-> filter_states]
    /\ UNCHANGED <<lifecycle, gui, threads, sample_rate, buffer_size, config, cont>>

ProcessBlock(audio_data) ==
    /\ Step
    /\ \E r \in {process_block(TheChain, audio_data, sample_rate)} :
           /\ filter_states' = r.filter_states
           /\ last' = [op |-> "process_block", block |-> audio_data, out |-> r.out,
                       is_input |-> r.is_input, raised |-> r.raised,
                       bands0 |-> bands, states0 |-> filter_states,
                       before |-> Before]
    /\ UNCHANGED <<lifecycle, gui, threads, sample_rate, buffer_size, bands, config, cont>>

ApplyPreset(preset_name) ==
    /\ Step
    /\ \E r \in {apply_preset(config, TheChain, preset_name)} :
           /\ bands' = r.chain.bands
           /\ filter_states' = r.chain.filter_states
           /\ last' = [op |-> "apply_preset", preset_name |-> preset_name,
                       ret |-> r.ret, bands0 |-> bands, states0 |-> filter_states]
    /\ UNCHANGED <<lifecycle, gui, threads, sample_rate, buffer_size, config, cont>>

\* bands[i].get_filter_coefficients(fs)
BandCoefficients(i, fs) ==
    /\ Step
    /\ i \in 1..Len(bands)
    /\ \E r \in {get_filter_coefficients(bands[i], fs)} :
          last' = [op |-> "get_filter_coefficients", band |-> bands[i], fs |-> fs,
                   b |-> r.b, a |-> r.a, bands0 |-> bands, states0 |-> filter_states]
    /\ UNCHANGED <<lifecycle, gui, threads, sample_rate, buffer_size, bands, filter_states, config, cont>>

GetFrequencyResponse(frequencies) ==
    /\ Step
    /\ \E r \in {get_frequency_response(TheChain, frequencies, sample_rate)} :
          /\ bands' = r.chain.bands
          /\ filter_states' = r.chain.filter_states
          /\ last' = [op |-> "get_frequency_response", frequencies |-> frequencies,
                      freqs |-> r.frequencies, magnitude_db |-> r.magnitude_db,
                      phase |-> r.phase, bands0 |-> bands, states0 |-> filter_states]
    /\ UNCHANGED <<lifecycle, gui, threads, sample_rate, buffer_size, config, cont>>

AudioCallback(in_data) ==
    /\ Step
    /\ \E r \in {audio_callback(TheChain, in_data, sample_rate)} :
          /\ filter_states' = r.filter_states
          /\ last' = [op |-> "audio_callback", in_data |-> in_data,
                      raised |-> r.raised, out |-> r.out, flag |-> r.flag,
                      bands0 |-> bands, states0 |-> filter_states]
    /\ UNCHANGED <<lifecycle, gui, threads, sample_rate, buffer_size, bands, config, cont>>

\* processor.bands[band_index].gain_db = gain_db, as the slider of an enabled
\* equalizer does
SetGain(band_index, gain_db) ==
    /\ Step
    /\ band_index \in 1..Len(bands)
    /\ LET ch == set_gain_db(TheChain, band_index, gain_db)
       IN  /\ bands' = ch.bands
           /\ filter_states' = ch.filter_states
    /\ last' = [op |-> "set_gain", band_index |-> band_index, gain_db |-> gain_db,
                bands0 |-> bands, states0 |-> filter_states]
    /\ UNCHANGED <<lifecycle, gui, threads, sample_rate, buffer_size, config, cont>>

Device == [audio |-> audio, stream |-> stream, running |-> running]

\* start() is called, by the main thread or, while that one loops, by another
Start(outcome) ==
    /\ Step
    /\ start_pc = "idle" \/ stream # None
    /\ \E r \in {start_enter(Device, outcome)} :
          /\ audio' = r.device.audio
          /\ stream' = r.device.stream
          /\ running' = r.device.running
          /\ start_pc' = IF start_pc = "idle" THEN r.pc ELSE start_pc
          /\ last' = [op |-> "start", phase |-> "enter", outcome |-> outcome,
                      opened |-> r.opened, stop_ran |-> r.stop_ran,
                      raised |-> r.raised, returned |-> (r.pc = "idle"),
                      device0 |-> Device, bands0 |-> bands, states0 |-> filter_states]
    /\ UNCHANGED <<gui, threads, sample_rate, buffer_size, bands, filter_states, config, cont>>

\* the thread in the loop of start() leaves it and returns
StartReturns(exit) ==
    /\ Step
    /\ start_pc = "looping"
    /\ CASE exit = "inactive" -> stream # None /\ ~is_active(stream)
         [] exit = "error" -> stream = None
         [] exit = "interrupt" -> TRUE
    /\ \E r \in {start_exit(Device)} :
          /\ audio' = r.device.audio
          /\ stream' = r.device.stream
          /\ running' = r.device.running
          /\ start_pc' = r.pc
          /\ last' = [op |-> "start", phase |-> "exit", outcome |-> exit,
                      opened |-> r.opened, stop_ran |-> r.stop_ran,
                      raised |-> r.raised, returned |-> TRUE,
                      device0 |-> Device, bands0 |-> bands, states0 |-> filter_states]
    /\ UNCHANGED <<gui, threads, sample_rate, buffer_size, bands, filter_states, config, cont>>

\* the device ends the stream
StreamFinishes ==
    /\ Step
    /\ stream # None
    /\ is_active(stream)
    /\ stream' = Stream(FALSE)
    /\ last' = [op |-> "stream_finishes", device0 |-> Device,
                bands0 |-> bands, states0 |-> filter_states]
    /\ UNCHANGED <<gui, threads, audio, running, start_pc, sample_rate, buffer_size,
                   bands, filter_states, config, cont>>

Stop ==
    /\ Step
    /\ \E d \in {stop(Device)} :
          /\ audio' = d.audio
          /\ stream' = d.stream
          /\ running' = d.running
    /\ last' = [op |-> "stop", raised |-> FALSE, device0 |-> Device,
                bands0 |-> bands, states0 |-> filter_states]
    /\ UNCHANGED <<gui, threads, start_pc, sample_rate, buffer_size, bands, filter_states,
                   config, cont>>

Cleanup ==
    /\ Step
    /\ \E d \in {cleanup(Device)} :
          /\ audio' = d.audio
          /\ stream' = d.stream
          /\ running' = d.running
    /\ last' = [op |-> "cleanup", raised |-> FALSE, device0 |-> Device,
                bands0 |-> bands, states0 |-> filter_states]
    /\ UNCHANGED <<gui, threads, start_pc, sample_rate, buffer_size, bands, filter_states,
                   config, cont>>

----------------------------------------------------------------------------
\* EqualizerGUI: the window, its sliders and the equalizer it owns

\* QSlider.setMinimum / setMaximum, in tenths of a dB
SliderMinimum == -120
SliderMaximum == 120

\* EqualizerBandControl.set_gain(gain_db): the value the slider takes
set_gain(gain_db) == Clip(gain_db * 10, SliderMinimum, SliderMaximum)

\* EqualizerBandControl.get_gain() of a slider at a whole number of dB
get_gain(value) == value \div 10

\* the window: enabled, the slider values and the configuration it read
TheGui == [enabled |-> enabled, sliders |-> sliders, config |-> gui_config]

\* the loop of _apply_current_settings, from configured band i on
RECURSIVE settings_bands(_, _, _, _)
settings_bands(ch, cbands, sl, i) ==
    IF i > Len(cbands) THEN ch
    ELSE settings_bands(IF i <= Len(sl)
                        THEN add_band(ch, cbands[i].frequency, get_gain(sl[i]),
                                      Given(Get(cbands[i], "q_factor", 1)))
                        ELSE ch,
                        cbands, sl, i + 1)

\* _apply_current_settings(): the chain is cleared and rebuilt from the
\* configured bands with the gains of the sliders
apply_current_settings(g, ch) == settings_bands(clear_bands(ch), g.config.bands, g.sliders, 1)

\* what an event leaves: the window, the chain and whether an error was shown
Left(g, ch, error) == [gui |-> g, chain |-> ch, error |-> error]

\* _on_enable_changed(state)
on_enable_changed(g, ch, checked) ==
    LET h == [g EXCEPT !.enabled = checked]
    IN  IF checked THEN Left(h, apply_current_settings(h, ch), FALSE)
        ELSE Left(h, ch, FALSE)

\* _on_band_changed that leaves the processor alone
on_band_changed_for_display_only(g, ch, band_index, gain_db) == ch

\* _on_band_changed(band_index, gain_db), with band_index from 1
on_band_changed(g, ch, band_index, gain_db) ==
    IF g.enabled /\ band_index <= Len(ch.bands)
    THEN set_gain_db(ch, band_index, gain_db)
    ELSE ch

\* the user moves slider band_index to value: _on_slider_changed(value) emits
\* value_changed, which _on_band_changed receives
on_slider_changed(g, ch, band_index, value) ==
    Left([g EXCEPT !.sliders[band_index] = value],
         on_band_changed(g, ch, band_index, get_gain(value)), FALSE)

\* the sliders after set_gain(gains[i]) on every control i that exists
SetSliders(sl, gains) ==
    [i \in 1..Len(sl) |-> IF i <= Len(gains) THEN set_gain(gains[i]) ELSE sl[i]]

\* the first entry of the preset box, which stands for no preset
NoPreset == "-- Select Preset --"

\* _on_preset_changed that applies the settings whether enabled or not
on_preset_changed_applies_always(g, ch, preset_name) ==
    IF preset_name = NoPreset THEN Left(g, ch, FALSE)
    ELSE LET h == [g EXCEPT !.sliders =
                        SetSliders(g.sliders, g.config.presets[preset_name].gains)]
         IN  Left(h, apply_current_settings(h, ch), FALSE)

\* _on_preset_changed(index): the sliders take the gains of the preset, as many
\* as there are of both, and an enabled equalizer is rebuilt from the sliders
on_preset_changed(g, ch, preset_name) ==
    IF preset_name = NoPreset THEN Left(g, ch, FALSE)
    ELSE LET h == [g EXCEPT !.sliders =
                        SetSliders(g.sliders, g.config.presets[preset_name].gains)]
         IN  IF g.enabled THEN Left(h, apply_current_settings(h, ch), FALSE)
             ELSE Left(h, ch, FALSE)

\* _reset_all_bands()
reset_all_bands(g, ch) ==
    LET h == [g EXCEPT !.sliders = [i \in 1..Len(g.sliders) |-> set_gain(0)]]
    IN  IF g.enabled THEN Left(h, apply_current_settings(h, ch), FALSE)
        ELSE Left(h, ch, FALSE)

\* _load_custom_preset that sets the sliders before it compares the lengths
load_custom_preset_checks_late(g, ch, file) ==
    IF file = Omitted THEN Left(g, ch, FALSE)
    ELSE LET preset_data == file[1] IN
         IF "gains" \notin DOMAIN preset_data THEN Left(g, ch, TRUE)
         ELSE LET h == [g EXCEPT !.sliders = SetSliders(g.sliders, preset_data.gains)]
              IN  IF Len(preset_data.gains) # Len(g.sliders) THEN Left(h, ch, TRUE)
                  ELSE IF g.enabled THEN Left(h, apply_current_settings(h, ch), FALSE)
                  ELSE Left(h, ch, FALSE)

\* _load_custom_preset(): no file chosen, or the file's preset; a preset without
\* gains or with another number of gains than controls raises ValueError, which
\* is shown as an error
load_custom_preset(g, ch, file) ==
    IF file = Omitted THEN Left(g, ch, FALSE)
    ELSE LET preset_data == file[1] IN
         IF "gains" \notin DOMAIN preset_data THEN Left(g, ch, TRUE)
         ELSE IF Len(preset_data.gains) # Len(g.sliders) THEN Left(g, ch, TRUE)
         ELSE LET h == [g EXCEPT !.sliders = SetSliders(g.sliders, preset_data.gains)]
              IN  IF g.enabled THEN Left(h, apply_current_settings(h, ch), FALSE)
                  ELSE Left(h, ch, FALSE)

\* the configuration files a window is opened with, and whether the equalizer
\* finds the same file from the working directory
GuiConfigNames == {"two", "one"}

\* EqualizerGUI.__init__(): the configuration is read, the equalizer is
\* constructed, one control per configured band is made with its slider at 0
GuiInit ==
    \E name \in GuiConfigNames, found \in BOOLEAN :
        \E config_file \in {[kind |-> IF found THEN "valid" ELSE "missing", name |-> name]} :
            \E eq \in {SoundEqualizer(config_file)} :
                /\ config = eq.config
                /\ sample_rate = eq.sample_rate
                /\ buffer_size = eq.buffer_size
                /\ bands = eq.processor.bands
                /\ filter_states = eq.processor.filter_states
                /\ audio = eq.audio
                /\ stream = eq.stream
                /\ running = eq.running
                /\ start_pc = "idle"
                /\ gui_config = ConfigOf(name)
                /\ enabled = FALSE
                /\ sliders = [i \in 1..Len(ConfigOf(name).bands) |-> 0]
                /\ last = [op |-> "gui_init", config_file |-> config_file,
                           raised |-> eq.raised, bands0 |-> <<>>, states0 |-> <<>>]
                /\ nsteps = 0
                /\ cont = NoCont
                /\ NoThreads

\* what an event does to the state, and what is kept of it
GuiEvent(r, event) ==
    /\ enabled' = r.gui.enabled
    /\ sliders' = r.gui.sliders
    /\ bands' = r.chain.bands
    /\ filter_states' = r.chain.filter_states
    /\ last' = event @@ [error |-> r.error, enabled0 |-> enabled, sliders0 |-> sliders,
                         bands0 |-> bands, states0 |-> filter_states]
    /\ UNCHANGED <<lifecycle, threads, gui_config, sample_rate, buffer_size, config, cont>>

\* the user ticks or unticks "Enable Equalizer"
GuiEnable ==
    /\ Step
    /\ \E r \in {on_enable_changed(TheGui, TheChain, ~enabled)} :
          GuiEvent(r, [op |-> "gui_enable"])

\* slider values the user moves a slider to
SliderValues == {-60, 30}

GuiSlider(band_index, value) ==
    /\ Step
    /\ band_index \in 1..Len(sliders)
    /\ value # sliders[band_index]
    /\ \E r \in {on_slider_changed(TheGui, TheChain, band_index, value)} :
          GuiEvent(r, [op |-> "gui_slider", band_index |-> band_index, value |-> value])

GuiPreset(preset_name) ==
    /\ Step
    /\ preset_name \in DOMAIN gui_config.presets \cup {NoPreset}
    /\ \E r \in {on_preset_changed(TheGui, TheChain, preset_name)} :
          GuiEvent(r, [op |-> "gui_preset", preset_name |-> preset_name])

GuiResetAll ==
    /\ Step
    /\ \E r \in {reset_all_bands(TheGui, TheChain)} :
          GuiEvent(r, [op |-> "gui_reset_all"])

\* the presets of the files a user loads: without gains, and with one, two and
\* three gains
CustomPresets ==
    {[description |-> "No gains"], [gains |-> <<3>>],
     [description |-> "Two", gains |-> <<-3, 6>>], [gains |-> <<3, 0, 6>>]}
CustomFiles == {Omitted} \cup {Given(p) : p \in CustomPresets}

GuiLoadCustom(file) ==
    /\ Step
    /\ \E r \in {load_custom_preset(TheGui, TheChain, file)} :
          GuiEvent(r, [op |-> "gui_load_custom", file |-> file])

----------------------------------------------------------------------------
\* Two threads on one AudioProcessor: the audio thread inside process_block and
\* a control thread in add_band, clear_bands and reset_states, with the
\* interpreter free to switch between them after any statement or any read or
\* store of self.bands and self.filter_states.

\* the chain of an equalizer of two threads, with one or two configured bands
ThreadInit ==
    \E name \in GuiConfigNames :
        \E config_file \in {[kind |-> "valid", name |-> name]} :
            \E eq \in {SoundEqualizer(config_file)} :
                /\ config = eq.config
                /\ sample_rate = eq.sample_rate
                /\ buffer_size = eq.buffer_size
                /\ bands = eq.processor.bands
                /\ filter_states = eq.processor.filter_states
                /\ audio = eq.audio
                /\ stream = eq.stream
                /\ running = eq.running
                /\ start_pc = "idle"
                /\ last = [op |-> "init", config_file |-> config_file,
                           raised |-> eq.raised, bands0 |-> <<>>, states0 |-> <<>>]
                /\ nsteps = 0
                /\ cont = NoCont
                /\ NoGui
                /\ NoThreads

\* the audio thread leaves process_block: by return, or by the exception raised
Returned(raised, out, during) ==
    [pc |-> "returned", raised |-> raised, out |-> out, during |-> during]

\* process_block is called: the test of len(self.bands), the conversion and
\* the iterator over self.bands
AudioEnter(audio_data) ==
    /\ audio_thread.pc \in {"idle", "returned"}
    /\ Step
    /\ audio_thread' =
          IF Len(bands) = 0 THEN Returned("no", audio_data, <<>>)
          ELSE [pc |-> "for", i |-> 1, band |-> None,
                processed |-> AsTypeFloat32(audio_data),
                y |-> <<>>, zf |-> None, during |-> <<>>]
    /\ last' = [op |-> "process_block", block |-> audio_data,
                bands0 |-> bands, states0 |-> filter_states]
    /\ UNCHANGED <<lifecycle, gui, control, sample_rate, buffer_size, bands,
                   filter_states, config, cont>>

\* the iterator of enumerate(self.bands) gives the next band of the list as
\* it is now, or ends the loop
AudioFor ==
    /\ audio_thread.pc = "for"
    /\ audio_thread' =
          IF audio_thread.i <= Len(bands)
          THEN [audio_thread EXCEPT !.pc = "test", !.band = bands[audio_thread.i]]
          ELSE Returned("no", audio_thread.processed, audio_thread.during)
    /\ UNCHANGED <<lifecycle, gui, control, sample_rate, buffer_size, bands,
                   filter_states, config, cont, last, nsteps>>

\* if self.filter_states[i] is None: the list is read as it is now; a None
\* state is followed by the filter from the first sample's steady state
AudioTest ==
    /\ audio_thread.pc = "test"
    /\ audio_thread' =
          IF audio_thread.i > Len(filter_states)
          THEN Returned("IndexError", <<>>, audio_thread.during)
          ELSE IF filter_states[audio_thread.i] = None
          THEN Only({ [audio_thread EXCEPT !.pc = "store", !.y = r.y, !.zf = r.zf] :
                      r \in {filter_band(audio_thread.band, None,
                                         audio_thread.processed, sample_rate)} })
          ELSE [audio_thread EXCEPT !.pc = "read"]
    /\ UNCHANGED <<lifecycle, gui, control, sample_rate, buffer_size, bands,
                   filter_states, config, cont, last, nsteps>>

\* zi=self.filter_states[i]: the list is read again; with zi None lfilter
\* returns one array, which the assignment to two targets cannot unpack when
\* the block has one sample
AudioRead ==
    /\ audio_thread.pc = "read"
    /\ audio_thread' =
          IF audio_thread.i > Len(filter_states)
          THEN Returned("IndexError", <<>>, audio_thread.during)
          ELSE IF filter_states[audio_thread.i] = None
          THEN Returned("ValueError", <<>>, audio_thread.during)
          ELSE Only({ [audio_thread EXCEPT !.pc = "store", !.y = r.y, !.zf = r.zf] :
                      r \in {filter_band(audio_thread.band, filter_states[audio_thread.i],
                                         audio_thread.processed, sample_rate)} })
    /\ UNCHANGED <<lifecycle, gui, control, sample_rate, buffer_size, bands,
                   filter_states, config, cont, last, nsteps>>

\* processed, self.filter_states[i] = ...: the final state is stored in the
\* list self.filter_states names now
AudioStore ==
    /\ audio_thread.pc = "store"
    /\ IF audio_thread.i > Len(filter_states)
       THEN /\ audio_thread' = Returned("IndexError", <<>>, audio_thread.during)
            /\ UNCHANGED filter_states
       ELSE /\ audio_thread' = [audio_thread EXCEPT !.pc = "for", !.i = @ + 1,
                                                    !.processed = audio_thread.y]
            /\ filter_states' = [filter_states EXCEPT ![audio_thread.i] = audio_thread.zf]
    /\ UNCHANGED <<lifecycle, gui, control, sample_rate, buffer_size, bands,
                   config, cont, last, nsteps>>

\* the audio thread with a statement of the control thread noted, when that
\* statement ran while the audio thread was in the band loop
Noted(statement) ==
    IF audio_thread.pc \in {"for", "test", "read", "store"}
    THEN [audio_thread EXCEPT !.during = Append(@, statement)]
    ELSE audio_thread

\* add_band: self.bands.append(band)
ControlAddBand(frequency, gain_db, q_factor) ==
    /\ control.pc = "idle"
    /\ Step
    /\ Len(bands) < MaxBands
    /\ bands' = Append(bands, EqualizerBand(frequency, gain_db, q_factor))
    /\ control' = [pc |-> "add_band"]
    /\ audio_thread' = Noted("bands.append")
    /\ last' = [op |-> "add_band", bands0 |-> bands, states0 |-> filter_states]
    /\ UNCHANGED <<lifecycle, gui, sample_rate, buffer_size, filter_states, config, cont>>

\* add_band: self.filter_states.append(None)
ControlAddBandState ==
    /\ control.pc = "add_band"
    /\ filter_states' = Append(filter_states, None)
    /\ control' = Idle
    /\ audio_thread' = Noted("filter_states.append")
    /\ UNCHANGED <<lifecycle, gui, sample_rate, buffer_size, bands, config, cont,
                   last, nsteps>>

\* clear_bands: self.bands.clear()
ControlClearBands ==
    /\ control.pc = "idle"
    /\ Step
    /\ bands' = <<>>
    /\ control' = [pc |-> "clear_bands"]
    /\ audio_thread' = Noted("bands.clear")
    /\ last' = [op |-> "clear_bands", bands0 |-> bands, states0 |-> filter_states]
    /\ UNCHANGED <<lifecycle, gui, sample_rate, buffer_size, filter_states, config, cont>>

\* clear_bands: self.filter_states.clear()
ControlClearStates ==
    /\ control.pc = "clear_bands"
    /\ filter_states' = <<>>
    /\ control' = Idle
    /\ audio_thread' = Noted("filter_states.clear")
    /\ UNCHANGED <<lifecycle, gui, sample_rate, buffer_size, bands, config, cont,
                   last, nsteps>>

\* reset_states: self.filter_states = [None] * len(self.bands)
ControlResetStates ==
    /\ control.pc = "idle"
    /\ Step
    /\ filter_states' = reset_states(TheChain).filter_states
    /\ audio_thread' = Noted("reset_states")
    /\ last' = [op |-> "reset_states", bands0 |-> bands, states0 |-> filter_states]
    /\ UNCHANGED <<lifecycle, gui, control, sample_rate, buffer_size, bands, config, cont>>

Next ==
    \/ \E f \in Frequencies, g \in Gains, q \in QArgs : AddBand(f, g, q)
    \/ ClearBands
    \/ ResetStates
    \/ \E block \in Blocks : ProcessBlock(block)
    \/ \E name \in PresetNames : ApplyPreset(name)

Spec == Init /\ [][Next]_vars

\* The processor as its callers query it between changes of the chain and blocks
QueryNext ==
    \/ \E f \in Frequencies, g \in Gains, q \in QArgs : AddBand(f, g, q)
    \/ ClearBands
    \/ \E block \in BlocksOfLen(1) : ProcessBlock(block)
    \/ \E i \in 1..MaxBands : BandCoefficients(i, sample_rate)
    \/ \E frequencies \in Grids : GetFrequencyResponse(frequencies)
    \/ \E i \in 1..MaxBands, g \in SliderGains : SetGain(i, g)

SpecQuery == Init /\ [][QueryNext]_vars

\* The window: its events, and blocks going through the equalizer's processor
GuiNext ==
    \/ GuiEnable
    \/ \E i \in 1..MaxBands, value \in SliderValues : GuiSlider(i, value)
    \/ \E name \in PresetNames \cup {NoPreset} : GuiPreset(name)
    \/ GuiResetAll
    \/ \E file \in CustomFiles : GuiLoadCustom(file)
    \/ \E block \in BlocksOfLen(1) : ProcessBlock(block)

SpecGui == GuiInit /\ [][GuiNext]_vars

\* The audio thread and the control thread, interleaved
ThreadNext ==
    \/ \E block \in BlocksOfLen(1) : AudioEnter(block)
    \/ AudioFor
    \/ AudioTest
    \/ AudioRead
    \/ AudioStore
    \/ \E f \in Frequencies, g \in Gains, q \in QArgs : ControlAddBand(f, g, q)
    \/ ControlAddBandState
    \/ ControlClearBands
    \/ ControlClearStates
    \/ ControlResetStates

SpecThreads == ThreadInit /\ [][ThreadNext]_vars

\* The life of the equalizer's stream: start(), the end of the stream, stop()
\* and cleanup(), the last two from any thread at any time
LifeNext ==
    \/ \E outcome \in StartOutcomes : Start(outcome)
    \/ \E exit \in LoopExits : StartReturns(exit)
    \/ StreamFinishes
    \/ Stop
    \/ Cleanup

SpecLife == Init /\ [][LifeNext]_vars

\* The equalizer while its stream runs: the stream calls audio_callback between
\* changes of the chain
CallbackNext ==
    \/ \E f \in Frequencies, g \in Gains, q \in QArgs : AddBand(f, g, q)
    \/ ClearBands
    \/ \E in_data \in Int16Blocks : AudioCallback(in_data)

SpecCallback == Init /\ [][CallbackNext]_vars


----------------------------------------------------------------------------
\* Streaming continuity: one signal through a chain instance in two consecutive
\* blocks, and whole through a second, identically configured instance

StreamGains == {-6, 6}
StreamQ == {1}
BandArgs == [frequency : Frequencies, gain_db : StreamGains, q_factor : StreamQ]
BandLists == UNION {[1..n -> BandArgs] : n \in 0..MaxBands}
Signals == UNION {BlocksOfLen(n) : n \in 2..MaxSignal}

\* a processor built by one add_band call per element of bs
RECURSIVE NewProcessor(_, _)
NewProcessor(bs, n) ==
    IF n = 0 THEN EmptyChain
    ELSE add_band(NewProcessor(bs, n - 1),
                  bs[n].frequency, bs[n].gain_db, Given(bs[n].q_factor))

StreamInit ==
    \E bs \in BandLists, signal \in Signals :
        \E k \in 1..(Len(signal) - 1) :
            \E ch \in {NewProcessor(bs, Len(bs))} :
                /\ config = DefaultConfig
                /\ sample_rate = Get(config, "sample_rate", 44100)
                /\ buffer_size = Get(config, "buffer_size", 1024)
                /\ bands = ch.bands
                /\ filter_states = ch.filter_states
                /\ last = [op |-> "init", bands0 |-> <<>>, states0 |-> <<>>]
                /\ nsteps = 0
                /\ cont = [pc |-> "start", signal |-> signal, k |-> k,
                           out1 |-> <<>>, out2 |-> <<>>, raised |-> FALSE,
                           ref |-> ch, whole |-> <<>>, whole_done |-> FALSE]
                /\ NoDevice
                /\ NoGui
                /\ NoThreads

\* process_block(signal[:k]) on the streaming instance
StreamFirst ==
    /\ cont.pc = "start"
    /\ \E r \in {process_block(TheChain, SubSeq(cont.signal, 1, cont.k),
                                sample_rate)} :
           /\ filter_states' = r.filter_states
           /\ cont' = [cont EXCEPT !.pc = "first", !.out1 = r.out,
                                   !.raised = r.raised]
    /\ UNCHANGED <<lifecycle, gui, threads, sample_rate, buffer_size, bands, config, last, nsteps>>

\* process_block(signal[k:]) on the streaming instance
StreamSecond ==
    /\ cont.pc = "first"
    /\ \E r \in {process_block(TheChain,
                                SubSeq(cont.signal, cont.k + 1, Len(cont.signal)),
                                sample_rate)} :
           /\ filter_states' = r.filter_states
           /\ cont' = [cont EXCEPT !.pc = "second", !.out2 = r.out,
                                   !.raised = cont.raised \/ r.raised]
    /\ UNCHANGED <<lifecycle, gui, threads, sample_rate, buffer_size, bands, config, last, nsteps>>

\* process_block(signal) on the second instance
StreamWhole ==
    /\ ~cont.whole_done
    /\ \E r \in {process_block(cont.ref, cont.signal, sample_rate)} :
           cont' = [cont EXCEPT !.whole_done = TRUE, !.whole = r.out,
                                !.raised = cont.raised \/ r.raised,
                                !.ref = Chain(cont.ref.bands, r.filter_states)]
    /\ UNCHANGED <<lifecycle, gui, threads, sample_rate, buffer_size, bands, filter_states, config, last, nsteps>>

StreamNext == StreamFirst \/ StreamSecond \/ StreamWhole

SpecStream == StreamInit /\ [][StreamNext]_vars

----------------------------------------------------------------------------
\* Properties

Active(sts) == {i \in 1..Len(sts) : sts[i] # None}
Uninitialized(sts) == {i \in 1..Len(sts) : sts[i] = None}

\* C1: after every call (add_band, clear_bands, reset_states, process_block,
\* apply_preset, returning, failing or raising) there are as many filter states
\* as bands, over the same indices, and each state is None or a two-tap vector.
C1_BandsAndStatesAligned ==
    /\ Len(bands) = Len(filter_states)
    /\ DOMAIN bands = DOMAIN filter_states
    /\ \A i \in DOMAIN filter_states :
           filter_states[i] = None \/ Len(filter_states[i]) = 2

\* a process_block call that raised half way through a chain with an Active state
C1_Witness ==
    /\ last.op = "process_block"
    /\ last.raised
    /\ Active(filter_states) # {}
    /\ Uninitialized(filter_states) # {}

\* C2: process_block on a chain without bands returns its argument itself,
\* sample for sample and without conversion, whatever its length, and leaves
\* bands and states empty.
C2_EmptyChainReturnsInput ==
    (last.op = "process_block" /\ Len(last.bands0) = 0) =>
        /\ ~last.raised
        /\ last.is_input
        /\ last.out = last.block
        /\ bands = <<>>
        /\ filter_states = <<>>

\* an empty-chain call on a block that a float32 conversion would have changed
C2_Witness ==
    /\ last.op = "process_block"
    /\ Len(last.bands0) = 0
    /\ AsTypeFloat32(last.block) # last.block

\* C3: process_block on a chain with at least one band and a block of at least
\* one sample returns as many samples as it was given and leaves every band's
\* state Active, whatever mix of None and Active states it found.
C3_LengthKeptAndStatesActive ==
    (last.op = "process_block" /\ Len(last.bands0) >= 1 /\ Len(last.block) >= 1) =>
        /\ ~last.raised
        /\ Len(last.out) = Len(last.block)
        /\ Len(filter_states) = Len(last.bands0)
        /\ Uninitialized(filter_states) = {}

\* a call on a chain holding an Active and an Uninitialized band
C3_Witness ==
    /\ last.op = "process_block"
    /\ Len(last.block) = MaxLen
    /\ Active(last.states0) # {}
    /\ Uninitialized(last.states0) # {}
    /\ ~last.raised

\* C4 (as claimed): process_block of a block of length 0 returns a block of
\* length 0 without raising, for every chain.
C4_EmptyBlockAccepted ==
    (last.op = "process_block" /\ Len(last.block) = 0) =>
        (~last.raised /\ Len(last.out) = 0)

\* C5: a signal processed in two consecutive blocks by one chain instance, all
\* of whose bands start Uninitialized, gives sample for sample the output, and
\* leaves the states, of the whole signal processed by an identically
\* configured instance; the second block finds every band Active, so the
\* first-sample initial condition is applied at the start of the stream only.
C5_StreamingContinuity ==
    /\ (cont.pc \in {"first", "second"}) => Uninitialized(filter_states) = {}
    /\ (cont.pc = "second" /\ cont.whole_done) =>
           /\ ~cont.raised
           /\ cont.out1 \o cont.out2 = cont.whole
           /\ filter_states = cont.ref.filter_states

\* both ways done on a chain of MaxBands bands and a signal of MaxSignal samples
C5_Witness ==
    /\ cont.pc = "second"
    /\ cont.whole_done
    /\ Len(bands) = MaxBands
    /\ Len(cont.signal) = MaxSignal
    /\ Len(cont.out1) = cont.k

\* C6: reset_states leaves every state None and the band sequence as it was:
\* as many bands, in the same order, each with its frequency, gain and Q.
C6_ResetKeepsBands ==
    (last.op = "reset_states") =>
        /\ bands = last.bands0
        /\ Len(filter_states) = Len(last.bands0)
        /\ Active(filter_states) = {}

\* a reset of a chain of two bands that held an Active state
C6_Witness ==
    /\ last.op = "reset_states"
    /\ Len(last.bands0) >= 2
    /\ Active(last.states0) # {}

\* C7: the process_block call that follows reset_states returns the output, and
\* leaves the states, that the same block gives on a newly built processor
\* holding the same bands, whatever was processed before the reset.
C7_ResetForgetsHistory ==
    (last.op = "process_block" /\ last.before.op = "reset_states") =>
        \E fresh \in {process_block(NewProcessor(last.bands0, Len(last.bands0)),
                                     last.block, sample_rate)} :
            /\ last.raised = fresh.raised
            /\ last.out = fresh.out
            /\ filter_states = fresh.filter_states

\* a block processed right after a reset that cleared an Active state
C7_Witness ==
    /\ last.op = "process_block"
    /\ last.before.op = "reset_states"
    /\ Active(last.before.states0) # {}
    /\ Len(last.block) >= 1
    /\ ~last.raised

\* C8: add_band appends one band with the given frequency, gain and Q (1 when
\* Q is not given) and one None state at the same index; the bands and states
\* already there keep position, parameters and state.
C8_AddBandAppends ==
    (last.op = "add_band") =>
        /\ bands = Append(last.bands0,
                          [frequency |-> last.frequency, gain_db |-> last.gain_db,
                           q_factor |-> IF last.q_factor = Omitted
                                        THEN 1 ELSE last.q_factor[1]])
        /\ filter_states = Append(last.states0, None)

\* a band added without Q to a chain that held an Active state
C8_Witness ==
    /\ last.op = "add_band"
    /\ last.q_factor = Omitted
    /\ Active(last.states0) # {}

\* the empty-chain identity of process_block on the current chain
IdentityOnEveryBlock ==
    \A block \in Blocks :
        \E r \in {process_block(TheChain, block, sample_rate)} :
            ~r.raised /\ r.is_input /\ r.out = block

\* C9: clear_bands leaves no band and no state, whatever the chain held, so the
\* next process_block returns its argument.
C9_ClearEmptiesChain ==
    /\ (last.op = "clear_bands") =>
           (bands = <<>> /\ filter_states = <<>> /\ IdentityOnEveryBlock)
    /\ (last.op = "process_block" /\ last.before.op = "clear_bands") =>
           (~last.raised /\ last.is_input /\ last.out = last.block)

\* a block processed right after clear_bands emptied a chain with an Active state
C9_Witness ==
    /\ last.op = "process_block"
    /\ last.before.op = "clear_bands"
    /\ Active(last.before.states0) # {}
    /\ Len(last.block) >= 1

\* the preset named is not configured, or has not one gain per configured band
PresetRejected(preset_name) ==
    LET presets == Get(config, "presets", <<>>) IN
    \/ preset_name \notin DOMAIN presets
    \/ Len(presets[preset_name].gains) # Len(Get(config, "bands", <<>>))

\* C10: apply_preset with an unknown name, or with a preset whose number of
\* gains differs from the number of configured bands, returns False and leaves
\* the bands, their gains and the filter states as they were.
C10_RejectedPresetLeavesChain ==
    (last.op = "apply_preset" /\ PresetRejected(last.preset_name)) =>
        /\ last.ret = FALSE
        /\ bands = last.bands0
        /\ filter_states = last.states0

\* a configured preset with the wrong number of gains, applied to a chain with
\* an Active state
C10_Witness ==
    /\ last.op = "apply_preset"
    /\ last.preset_name \in DOMAIN Get(config, "presets", <<>>)
    /\ PresetRejected(last.preset_name)
    /\ Active(last.states0) # {}

\* the bands a preset stands for: band i of the configuration with its frequency
\* and Q (1 when the configuration gives none) and the preset's i-th gain
PresetBands(preset_name) ==
    LET gains  == config.presets[preset_name].gains
        cbands == Get(config, "bands", <<>>)
    IN  [i \in 1..Len(cbands) |->
            [frequency |-> cbands[i].frequency, gain_db |-> gains[i],
             q_factor |-> IF "q_factor" \in DOMAIN cbands[i]
                          THEN cbands[i].q_factor ELSE 1]]

\* C11: an apply_preset that is not rejected returns True and leaves the chain
\* of a newly built processor: one band per configured band, in configuration
\* order, with the configured frequency and Q and the preset's gain, every
\* state None; nothing of the chain before the call remains.
C11_PresetRebuildsChain ==
    (last.op = "apply_preset" /\ ~PresetRejected(last.preset_name)) =>
        /\ last.ret = TRUE
        /\ bands = PresetBands(last.preset_name)
        /\ Len(filter_states) = Len(bands)
        /\ Active(filter_states) = {}
        /\ TheChain = NewProcessor(PresetBands(last.preset_name),
                                   Len(Get(config, "bands", <<>>)))

\* a preset applied to a chain that held an Active state and another number of
\* bands than the configuration
C11_Witness ==
    /\ last.op = "apply_preset"
    /\ ~PresetRejected(last.preset_name)
    /\ Active(last.states0) # {}
    /\ Len(last.bands0) # Len(Get(config, "bands", <<>>))

\* C20: a SoundEqualizer constructed with a file that does not exist or is not
\* JSON is constructed all the same, with sample rate 44100, buffer size 1024
\* and no band; one constructed with a configuration that omits fields has
\* 44100, 1024 and no band for the fields omitted and the values given for
\* the others.
C20_ConfigFallsBackToDefaults ==
    (last.op = "init") =>
        /\ ~last.raised
        /\ (last.config_file.kind \in {"missing", "invalid"}) =>
               /\ sample_rate = 44100
               /\ buffer_size = 1024
               /\ bands = <<>>
               /\ filter_states = <<>>
        /\ (last.config_file.kind = "valid") =>
               LET given == ConfigOf(last.config_file.name) IN
               /\ sample_rate = IF "sample_rate" \in DOMAIN given
                                THEN given.sample_rate ELSE 44100
               /\ buffer_size = IF "buffer_size" \in DOMAIN given
                                THEN given.buffer_size ELSE 1024
               /\ IF "bands" \in DOMAIN given
                  THEN /\ Len(bands) = Len(given.bands)
                       /\ \A i \in 1..Len(bands) :
                              /\ bands[i].frequency = given.bands[i].frequency
                              /\ bands[i].gain_db = given.bands[i].gain_db
                  ELSE bands = <<>>
               /\ Len(filter_states) = Len(bands)

\* an equalizer constructed with a file that is not JSON
C20_Witness ==
    /\ last.op = "init"
    /\ last.config_file.kind = "invalid"
    /\ config = DefaultConfig

----------------------------------------------------------------------------
\* The functions that keep no state, each applied to inputs of its own

AllGains == {-6, -3, 0, 3, 6}
QFactors == {1, 2}

UtilBands ==
    {[frequency |-> f, gain_db |-> g, q_factor |-> q] :
        f \in Frequencies, g \in AllGains, q \in QFactors}

\* the longest block handed to apply_fade
MaxBlock == 4
FadeSampleValues == {-(Scale + 1), Scale}
FadeBlocks == UNION {[1..n -> FadeSampleValues] : n \in 0..MaxBlock}
FadeCounts == 0..(MaxBlock + 1)

TargetLevels == {-3, -1}
UtilSamples == {-(Scale + 1), 0, Scale}
UtilBlocks == UNION {[1..n -> UtilSamples] : n \in 0..MaxLen}

UtilInit ==
    /\ config = DefaultConfig
    /\ sample_rate = 44100
    /\ buffer_size = 1024
    /\ bands = <<>>
    /\ filter_states = <<>>
    /\ last = [op |-> "none"]
    /\ nsteps = 0
    /\ cont = NoCont
    /\ NoDevice
    /\ NoGui
    /\ NoThreads

\* band.get_filter_coefficients(fs) on a band of its own
GetFilterCoefficients(band, fs) ==
    /\ \E r \in {get_filter_coefficients(band, fs)} :
          last' = [op |-> "get_filter_coefficients", band |-> band, fs |-> fs,
                   b |-> r.b, a |-> r.a]
    /\ UNCHANGED <<lifecycle, gui, threads, sample_rate, buffer_size, bands, filter_states, config, nsteps, cont>>

\* normalize_audio(audio_data, target_level) on a block of its own
NormalizeAudio(audio_data, target_level) ==
    /\ \E r \in {normalize_audio(audio_data, target_level)} :
          last' = [op |-> "normalize_audio", audio_data |-> audio_data,
                   target_level |-> target_level, raised |-> r.raised,
                   out |-> r.out, is_input |-> r.is_input, scale |-> r.scale]
    /\ UNCHANGED <<lifecycle, gui, threads, sample_rate, buffer_size, bands, filter_states, config, nsteps, cont>>

\* apply_fade(audio_data, fade_samples) on a block of its own
ApplyFade(audio_data, fade_samples) ==
    /\ \E r \in {apply_fade(audio_data, fade_samples)} :
          last' = [op |-> "apply_fade", audio_data |-> audio_data,
                   fade_samples |-> fade_samples, raised |-> r.raised,
                   out |-> r.out, arg |-> r.arg]
    /\ UNCHANGED <<lifecycle, gui, threads, sample_rate, buffer_size, bands, filter_states, config, nsteps, cont>>

UtilNext ==
    \/ \E band \in UtilBands, fs \in SampleRates : GetFilterCoefficients(band, fs)
    \/ \E audio_data \in UtilBlocks, target_level \in TargetLevels :
          NormalizeAudio(audio_data, target_level)
    \/ \E audio_data \in FadeBlocks, fade_samples \in FadeCounts :
          ApplyFade(audio_data, fade_samples)

SpecUtil == UtilInit /\ [][UtilNext]_vars

\* C12: with gain_db = 0 the coefficients b and a are equal element by element
\* and a[0] is 1.
C12_ZeroGainIsIdentity ==
    (last.op = "get_filter_coefficients" /\ last.band.gain_db = 0) =>
        /\ last.a[1] = Scale
        /\ Len(last.b) = 3 /\ Len(last.a) = 3
        /\ \A k \in 1..3 : last.b[k] = last.a[k]

\* coefficients of a band of gain 0 and Q 2 at 48 kHz
C12_Witness ==
    /\ last.op = "get_filter_coefficients"
    /\ last.band.gain_db = 0
    /\ last.band.q_factor = 2
    /\ last.fs = 48000
    /\ last.a[3] # 0

PeakOf(block) == Max([i \in 1..Len(block) |-> Abs(block[i])])

\* C15: normalize_audio on a block of nonzero peak returns every sample times
\* one factor, and the peak of the result is 10^(target/20); on an all-zero
\* block it returns the block itself.
C15_NormalizeToTarget ==
    (last.op = "normalize_audio" /\ last.audio_data # <<>>) =>
        /\ ~last.raised
        /\ Len(last.out) = Len(last.audio_data)
        /\ IF PeakOf(last.audio_data) = 0
           THEN last.is_input /\ last.out = last.audio_data
           ELSE /\ \A i \in 1..Len(last.out) :
                      last.out[i] = RoundDiv(last.audio_data[i] * last.scale, Fine)
                /\ PeakOf(last.out) = FromMilli(GainLinearMilli(last.target_level))

\* a block whose peak is a negative sample above 1.0, normalised to -1 dB
C15_Witness ==
    /\ last.op = "normalize_audio"
    /\ Len(last.audio_data) = 2
    /\ last.audio_data[1] = Scale
    /\ last.audio_data[2] = -(Scale + 1)
    /\ last.target_level = -1
    /\ last.out[2] = -FromMilli(891)

\* C16: apply_fade leaves its argument as it was and returns a block of the
\* argument's length, for every block length and every fade_samples.
C16_FadeKeepsLengthAndInput ==
    (last.op = "apply_fade") =>
        /\ ~last.raised
        /\ last.arg = last.audio_data
        /\ Len(last.out) = Len(last.audio_data)

\* C17: for a block of length >= 1 and fade_samples >= 1 the first and the last
\* sample of the result are 0.
C17_FadeStartsAndEndsSilent ==
    (/\ last.op = "apply_fade"
     /\ Len(last.audio_data) >= 1
     /\ last.fade_samples >= 1) =>
        /\ ~last.raised
        /\ last.out[1] = 0
        /\ last.out[Len(last.audio_data)] = 0

\* the factor apply_fade gives sample i (from 1) of a block of length n, with
\* m = min(fade_samples, n): the fade-in factor of the first m samples and the
\* fade-out factor of the last m
FadeInFactor(i, m) == IF i <= m THEN linspace(0, Scale, m)[i] ELSE Scale
FadeOutFactor(i, m, n) == IF i > n - m THEN linspace(Scale, 0, m)[i - (n - m)] ELSE Scale

\* C18: with m = min(fade_samples, len) and fade_samples >= 0, only the first m
\* samples are multiplied by the fade-in factor and only the last m by the
\* fade-out factor: the samples between equal the input, and a sample in both
\* regions is multiplied by both factors.
C18_FadeTouchesOnlyTheEnds ==
    (last.op = "apply_fade" /\ last.fade_samples >= 0) =>
        LET n == Len(last.audio_data)
            m == Min(last.fade_samples, n)
        IN  /\ ~last.raised
            /\ Len(last.out) = n
            /\ \A i \in 1..n :
                  /\ (i > m /\ i <= n - m) => last.out[i] = last.audio_data[i]
                  /\ last.out[i] = Mul(Mul(last.audio_data[i], FadeInFactor(i, m)),
                                       FadeOutFactor(i, m, n))

Queries == {"get_filter_coefficients", "get_frequency_response"}

C14_EmptyChainIsFlat ==
    (last.op = "get_frequency_response" /\ last.bands0 = <<>>) =>
        /\ last.freqs = IF last.frequencies = Omitted
                        THEN DefaultGrid(sample_rate) ELSE last.frequencies[1]
        /\ Len(last.magnitude_db) = Len(last.freqs)
        /\ Len(last.phase) = Len(last.freqs)
        /\ \A i \in 1..Len(last.freqs) :
              /\ last.magnitude_db[i] = Finite(0)
              /\ last.phase[i] = Finite(0)

\* the response of a chain emptied by clear_bands, on a grid of the caller's
C14_Witness ==
    /\ last.op = "get_frequency_response"
    /\ last.bands0 = <<>>
    /\ last.states0 = <<>>
    /\ last.frequencies = Given(<<10000, 1000>>)
    /\ Len(Get(config, "bands", <<>>)) > 0

\* C19: audio_callback returns, for every block of 16-bit samples, as many
\* samples as it was given, each within [-32768, 32767], and the continue flag,
\* whatever the chain and the states of its bands.
C19_CallbackKeepsCountAndRange ==
    (last.op = "audio_callback") =>
        /\ ~last.raised
        /\ Len(last.out) = Len(last.in_data)
        /\ \A i \in 1..Len(last.out) : last.out[i] \in -32768..32767
        /\ last.flag = "paContinue"

\* C25: audio_callback does not silence the signal: a block with a nonzero
\* sample, through an empty chain or a chain of bands, comes back with a
\* nonzero sample.
C25_CallbackKeepsSignal ==
    (/\ last.op = "audio_callback"
     /\ \E i \in 1..Len(last.in_data) : last.in_data[i] # 0) =>
        /\ ~last.raised
        /\ \E i \in 1..Len(last.out) : last.out[i] # 0

\* what the one band of a chain gives for a block, from its parameters as
\* they are now and the state it had
OneBandOutput(band, state0, block) ==
    filter_band(band, state0, AsTypeFloat32(block), sample_rate).y

\* C23: an assignment to a band's gain_db between two process_block calls
\* leaves the number and order of the bands and every filter state as they
\* were, an Active state included, and the next process_block and
\* get_frequency_response work with the new gain of that band.
C23_GainChangeKeepsStates ==
    /\ (last.op = "set_gain") =>
          /\ filter_states = last.states0
          /\ Len(bands) = Len(last.bands0)
          /\ \A j \in 1..Len(bands) :
                /\ bands[j].frequency = last.bands0[j].frequency
                /\ bands[j].q_factor = last.bands0[j].q_factor
                /\ bands[j].gain_db = IF j = last.band_index THEN last.gain_db
                                      ELSE last.bands0[j].gain_db
    /\ (/\ last.op = "process_block"
        /\ last.before.op = "set_gain"
        /\ Len(bands) = 1
        /\ last.block # <<>>) =>
          /\ ~last.raised
          /\ last.states0 = last.before.states0
          /\ last.out = OneBandOutput(bands[1], last.states0[1], last.block)
    /\ (last.op = "get_frequency_response" /\ Len(bands) = 1) =>
          \A k \in 1..Len(last.freqs) :
              last.magnitude_db[k] =
                  LET c == get_filter_coefficients(bands[1], sample_rate)
                  IN  MagnitudeDb(freqz(c.b, c.a, last.freqs[k], sample_rate))

\* a block through a band whose gain was changed after an earlier block: the
\* state of the earlier block is used and the old gain would have given
\* another output
C23_Witness ==
    /\ last.op = "process_block"
    /\ last.before.op = "set_gain"
    /\ Len(bands) = 1
    /\ last.block # <<>>
    /\ last.states0[1] # None
    /\ last.before.bands0[1].gain_db # bands[1].gain_db
    /\ last.out # OneBandOutput(last.before.bands0[1], last.states0[1], last.block)

\* C21: after cleanup(), whether start() was never called, is looping or has
\* returned, stream and audio are None and running is False; stop() and
\* cleanup() raise nothing, called again or without a start() before them.
C21_CleanupReleasesEverything ==
    /\ (last.op = "cleanup") =>
          /\ ~last.raised
          /\ stream = None /\ audio = None /\ running = FALSE
    /\ (last.op = "stop") =>
          /\ ~last.raised
          /\ stream = None /\ running = FALSE /\ audio = last.device0.audio

\* cleanup() while the stream runs and start() loops
C21_Witness ==
    /\ last.op = "cleanup"
    /\ last.device0.stream # None
    /\ last.device0.running
    /\ last.device0.audio # None
    /\ start_pc = "looping"

\* C24: a start() that opened a stream has called stop() when it returns,
\* however its loop ends or open or start_stream fails, and stream is None and
\* running is False then; a start() called while stream is not None opens no
\* stream and changes nothing.
C24_StartAlwaysStops ==
    /\ (last.op = "start" /\ last.returned /\ last.opened) =>
          /\ last.stop_ran
          /\ stream = None /\ running = FALSE
    /\ (last.op = "start" /\ last.returned /\ last.outcome = "open_fails"
           /\ last.device0.stream = None) =>
          /\ last.stop_ran
          /\ stream = None /\ running = FALSE
    /\ (last.op = "start" /\ last.phase = "enter" /\ last.device0.stream # None) =>
          /\ ~last.opened
          /\ Device = last.device0

\* start() returns because start_stream raised on the stream it had opened
C24_Witness ==
    /\ last.op = "start"
    /\ last.returned
    /\ last.opened
    /\ last.outcome = "start_stream_fails"

\* the events of the window, and the processor as an event found it
GuiEvents == {"gui_enable", "gui_slider", "gui_preset", "gui_reset_all", "gui_load_custom"}
ProcessorKept == bands = last.bands0 /\ filter_states = last.states0

\* C27: selecting a built-in preset whose number of gains differs from the
\* number of configured bands changes no slider and no band of the processor,
\* whether the equalizer is enabled or not.
C27_MismatchedPresetRejected ==
    (/\ last.op = "gui_preset"
     /\ last.preset_name # NoPreset
     /\ Len(gui_config.presets[last.preset_name].gains) # Len(gui_config.bands)) =>
        /\ sliders = last.sliders0
        /\ bands = last.bands0

\* C28: loading a custom preset without gains, or with another number of gains
\* than there are band controls, shows an error and changes no slider and no
\* band or state of the processor.
C28_BadCustomPresetRejected ==
    (/\ last.op = "gui_load_custom"
     /\ last.file # Omitted
     /\ \/ "gains" \notin DOMAIN last.file[1]
        \/ Len(last.file[1].gains) # Len(last.sliders0)) =>
        /\ last.error
        /\ sliders = last.sliders0
        /\ ProcessorKept

\* a preset with one gain too few is loaded into an enabled equalizer whose
\* filters hold state
C28_Witness ==
    /\ last.op = "gui_load_custom"
    /\ last.file # Omitted
    /\ "gains" \in DOMAIN last.file[1]
    /\ Len(last.file[1].gains) = Len(last.sliders0) - 1
    /\ last.enabled0
    /\ \E i \in 1..Len(last.states0) : last.states0[i] # None

\* C29: while the equalizer is enabled the processor holds one band per band
\* control, in the order of the controls, and band i has the gain of slider i.
C29_EnabledChainFollowsSliders ==
    enabled =>
        /\ Len(bands) = Len(sliders)
        /\ \A i \in 1..Len(sliders) :
              /\ bands[i].frequency = gui_config.bands[i].frequency
              /\ bands[i].gain_db = get_gain(sliders[i])

\* a slider of an enabled two-band equalizer has just been moved
C29_Witness ==
    /\ enabled
    /\ last.op = "gui_slider"
    /\ last.enabled0
    /\ Len(sliders) = 2
    /\ bands[last.band_index].gain_db # last.bands0[last.band_index].gain_db

\* C30: while the equalizer is disabled, a slider change, a preset, Reset All and
\* a custom preset leave the bands, gains and filter states of the processor as
\* they were; enabling gives the processor the gains of the sliders.
C30_DisabledLeavesProcessor ==
    /\ (last.op \in GuiEvents \ {"gui_enable"} /\ ~last.enabled0) => ProcessorKept
    /\ (last.op = "gui_enable" /\ ~last.enabled0) =>
          /\ sliders = last.sliders0
          /\ Len(bands) = Len(sliders)
          /\ \A i \in 1..Len(sliders) : bands[i].gain_db = get_gain(sliders[i])

\* a preset moves the sliders of a disabled equalizer whose filters hold state
C30_Witness ==
    /\ last.op = "gui_preset"
    /\ ~last.enabled0
    /\ sliders # last.sliders0
    /\ \E i \in 1..Len(filter_states) : filter_states[i] # None
    /\ \E i \in 1..Len(sliders) : bands[i].gain_db # get_gain(sliders[i])


\* C22: process_block never meets a band without a state entry at its index:
\* it tests no self.filter_states[i] past the end of the list and ends with no
\* IndexError, whatever add_band and clear_bands do on the control thread.
C22_BandsAndStatesChangeAtomically ==
    /\ audio_thread.pc \in {"test", "read", "store"} =>
          audio_thread.i <= Len(filter_states)
    /\ audio_thread.pc = "returned" => audio_thread.raised # "IndexError"

\* C26: when reset_states, and nothing else of the control thread, ran while a
\* block was in the band loop, the block returns without an exception and the
\* states are then all None or all not None.
C26_ResetIsLinearizable ==
    (/\ audio_thread.pc = "returned"
     /\ audio_thread.during = <<"reset_states">>
     /\ last.op = "reset_states"
     /\ control.pc = "idle") =>
        /\ audio_thread.raised = "no"
        /\ \/ \A i \in 1..Len(filter_states) : filter_states[i] = None
           \/ \A i \in 1..Len(filter_states) : filter_states[i] # None

====
